---------------------------- MODULE Spec2Model ----------------------------
(***************************************************************************)
(* CryptoScanner (src/scanner.py): the scan loop of scan_markets, with the *)
(* fetch (get_ohlcv_data), the return column (calculate_daily_returns),    *)
(* the baseline (calculate_metrics) and the anomaly rule.                  *)
(*                                                                         *)
(* Numbers.  The code computes in IEEE floats; the model computes the same *)
(* expressions exactly.  A float is held as a record [k, v]: k = "num"     *)
(* with the value v, k = "inf" (+infinity) or k = "nan".  Volumes are      *)
(* integers; a daily return is held as its numerator over the common       *)
(* denominator RetScale.  A mean is [k, s, c] (the value s/c), a standard  *)
(* deviation [k, q, c] (the value sqrt(q / (c*(c-1)))), and comparisons    *)
(* between them are decided on integers by cross-multiplication and        *)
(* squaring, so no rounding error is modelled.                             *)
(***************************************************************************)
EXTENDS Integers, Sequences, FiniteSets, TLC

VARIABLES
    symbols,            \* self.exchange.symbols
    base_currencies,    \* self.base_currencies
    volume_mult,        \* scan_markets argument
    return_mult,        \* scan_markets argument
    lookback,           \* scan_markets argument
    pc,                 \* position in scan_markets ("error": an exception
                        \* left it, which /scan answers with status 500)
    i,                  \* position of the for loop in symbols (1-based)
    df,                 \* the loop's df (None, or the fetched table)
    recent_data,        \* calculate_metrics' recent_data, as last computed
    metrics,            \* the loop's metrics (None before calculate_metrics)
    high_demand_pairs,  \* the list of match records
    fetches,            \* history: calls of get_ohlcv_data per position
    outcome             \* history: what the loop did with each position

vars == <<symbols, base_currencies, volume_mult, return_mult, lookback, pc, i,
          df, recent_data, metrics, high_demand_pairs, fetches, outcome>>

----------------------------------------------------------------------------
(* Bounds of the model *)

\* The exchange returns at most MaxLen candles for one instrument.
MaxLen == 3

\* The multipliers compared by the monotonicity property range over 0..MaxMult.
MaxMult == 2

\* Stand-ins for the indicator provider's warm-up: the oscillator is undefined
\* at the first RsiWarmup positions of a series, the trend value at the first
\* MacdWarmup positions.
RsiWarmup == 1
MacdWarmup == 3

----------------------------------------------------------------------------
(* Program constants *)

DefaultVolumeMult == 2
DefaultReturnMult == 2
ExtraCandles == 10
FloorDen == 100

----------------------------------------------------------------------------
(* Input data *)

\* Python's None, and a DataFrame with its rows in order.
None == [k |-> "none", rows |-> <<>>]
Frame(rows) == [k |-> "frame", rows |-> rows]
NRows(d) == Len(d.rows)

BTC_USDT == <<"B", "T", "C", "/", "U", "S", "D", "T">>
ETH_BTC  == <<"E", "T", "H", "/", "B", "T", "C">>
ETH_USDT == <<"E", "T", "H", "/", "U", "S", "D", "T">>
USDT_BTC == <<"U", "S", "D", "T", "/", "B", "T", "C">>
USDT     == <<"U", "S", "D", "T">>

\* exchange.symbols after load_markets: distinct identifiers.  The second
\* universe holds a symbol that names USDT as its base asset.
Universes ==
    { <<BTC_USDT, ETH_BTC, ETH_USDT>>, <<ETH_BTC, USDT_BTC>> }

\* One OHLCV row as the exchange returns it (high and low are never read).
Candle(o, c, v) == [open |-> o, close |-> c, volume |-> v]

\* The rule is homogeneous in the volume, and the volumes are kept small
\* (50 and 51 stand for 500 and 510) so that the products of the exact
\* comparisons stay within TLC's integers.
Candles ==
    { Candle(1, 1, 50),     \* flat price, normal volume
      Candle(1, 2, 51),     \* return +1, raised volume
      Candle(2, 1, 0),      \* return -1/2, no volume
      Candle(0, 1, 51) }    \* open price zero, raised volume

Opens == { c.open : c \in Candles }

\* The common denominator of the returns of the candles: the least number
\* every non-zero open divides.
RetScale ==
    LET Bound == 1 + (CHOOSE m \in Opens : \A o \in Opens : o <= m)
        Ok(d) == \A o \in Opens \ {0} : d % o = 0
    IN  CHOOSE d \in 1..(Bound * Bound) : Ok(d) /\ \A e \in 1..(d - 1) : ~Ok(e)

----------------------------------------------------------------------------
(* Floats *)

Num(x) == [k |-> "num", v |-> x]
NaN    == [k |-> "nan", v |-> 0]
Inf    == [k |-> "inf", v |-> 0]

Abs(x) == IF x < 0 THEN -x ELSE x

RECURSIVE SumSeq(_)
SumSeq(s) == IF s = <<>> THEN 0 ELSE Head(s) + SumSeq(Tail(s))

RECURSIVE SumSq(_)
SumSq(s) == IF s = <<>> THEN 0 ELSE Head(s) * Head(s) + SumSq(Tail(s))

\* n/d rounded to the nearest integer, ties to the even one (d > 0).
RoundHalfEven(n, d) ==
    LET fl == n \div d
        r2 == 2 * (n - fl * d)
    IN  IF r2 < d THEN fl
        ELSE IF r2 > d THEN fl + 1
        ELSE IF fl % 2 = 0 THEN fl ELSE fl + 1

----------------------------------------------------------------------------
(* __init__ and the symbol filter *)

\* Python's `needle in hay` on strings.
IsSubstring(needle, hay) ==
    \E a \in 0..(Len(hay) - Len(needle)) :
        SubSeq(hay, a + 1, a + Len(needle)) = needle

\* any(base in symbol for base in self.base_currencies)
AnyBaseIn(symbol, bases) ==
    \E b \in 1..Len(bases) : IsSubstring(bases[b], symbol)

----------------------------------------------------------------------------
(* get_ohlcv_data *)

\* scan_markets asks for lookback + 10 candles.
Limit(lb) == lb + ExtraCandles

\* The series the exchange may return for a request of `limit` candles: any
\* number of candles up to the limit (and up to MaxLen).
MinOf(a, b) == IF a < b THEN a ELSE b
MaxOf(a, b) == IF a > b THEN a ELSE b

SeriesFor(limit) ==
    UNION { [1..n -> Candles] : n \in 0..MinOf(MaxOf(limit, 0), MaxLen) }

\* What propagates when no handler catches an exception.
Raised == [k |-> "raised", rows |-> <<>>]

\* The indicator provider (ta): undefined at the first `warmup` positions, a
\* number after them (the number itself is not modelled).
Indicator(p, warmup) == IF p <= warmup THEN NaN ELSE Num(0)

\* The DataFrame built from the rows: `index` is the pandas row label
\* (0-based), `timestamp` the candle's time bucket.
BuildFrame(ohlcv) ==
    Frame([p \in 1..Len(ohlcv) |->
        [index     |-> p - 1,
         timestamp |-> p,
         open      |-> ohlcv[p].open,
         close     |-> ohlcv[p].close,
         volume    |-> ohlcv[p].volume,
         rsi       |-> Indicator(p, RsiWarmup),
         macd      |-> Indicator(p, MacdWarmup)]])

----------------------------------------------------------------------------
(* calculate_daily_returns *)

\* (close - open) / open in floats: a zero open gives an infinity (a NaN for
\* 0/0), never an exception; closes are not negative.  The number is held
\* over RetScale.
DailyReturn(open, close) ==
    IF open = 0
    THEN (IF close = 0 THEN NaN ELSE Inf)
    ELSE Num(((close - open) * RetScale) \div open)

\* df['daily_return'] = (df['close'] - df['open']) / df['open']
calculate_daily_returns(d) ==
    Frame([p \in 1..NRows(d) |->
        d.rows[p] @@
        ("daily_return" :> DailyReturn(d.rows[p].open, d.rows[p].close))])

----------------------------------------------------------------------------
(* calculate_metrics *)

\* A Python slice bound on a sequence of length n.
SliceBound(x, n) == IF x < 0 THEN MaxOf(x + n, 0) ELSE MinOf(x, n)

\* d.iloc[start:stop]
ILocSlice(d, start, stop) ==
    LET lo == SliceBound(start, NRows(d))
        hi == SliceBound(stop, NRows(d))
    IN  Frame(IF lo < hi THEN SubSeq(d.rows, lo + 1, hi) ELSE <<>>)

\* A slip: df.iloc[-lookback:], the window that ends with the current row.
RecentDataWithCurrent(d, lb) == ILocSlice(d, -lb, NRows(d))

\* recent_data = df.iloc[-(lookback+1):-1]
RecentData(d, lb) == ILocSlice(d, -(lb + 1), -1)

\* d[f] as a sequence of floats.
Column(d, f) == [p \in 1..NRows(d) |-> d.rows[p][f]]
VolumeColumn(d) == [p \in 1..NRows(d) |-> Num(d.rows[p].volume)]

NotNaN(x) == x.k # "nan"
IsInf(x) == x.k = "inf"
Values(col) == [p \in 1..Len(col) |-> col[p].v]

\* Series.mean(): NaN entries are skipped; [k, s, c] is the value s/c.
Mean(col) ==
    LET kept == SelectSeq(col, NotNaN)
    IN  IF Len(kept) = 0 THEN [k |-> "nan", s |-> 0, c |-> 0]
        ELSE IF SelectSeq(kept, IsInf) # <<>> THEN [k |-> "inf", s |-> 0, c |-> 0]
        ELSE [k |-> "num", s |-> SumSeq(Values(kept)), c |-> Len(kept)]

\* Series.std(): the sample standard deviation (ddof = 1) of the entries that
\* are not NaN; NaN for fewer than two of them or for an infinite entry.
\* [k, q, c] is the value sqrt(q / (c * (c - 1))), q = c * sum(x^2) - sum(x)^2.
Std(col) ==
    LET kept == SelectSeq(col, NotNaN)
        c == Len(kept)
        s == SumSeq(Values(kept))
    IN  IF c < 2 \/ SelectSeq(kept, IsInf) # <<>> THEN [k |-> "nan", q |-> 0, c |-> 0]
        ELSE [k |-> "num", q |-> c * SumSq(Values(kept)) - s * s, c |-> c]

\* recent_data[col].iloc[-1] raises IndexError on an empty recent_data.
MetricsRaises(d, lb) == NRows(RecentData(d, lb)) = 0

calculate_metrics(d, lb) ==
    LET recent == RecentData(d, lb)
    IN  [volume |-> [mean |-> Mean(VolumeColumn(recent)),
                     std  |-> Std(VolumeColumn(recent))],
         return |-> [mean |-> Mean(Column(recent, "daily_return")),
                     std  |-> Std(Column(recent, "daily_return"))],
         rsi    |-> [current |-> recent.rows[NRows(recent)].rsi,
                     mean    |-> Mean(Column(recent, "rsi"))],
         macd   |-> [current |-> recent.rows[NRows(recent)].macd,
                     mean    |-> Mean(Column(recent, "macd"))]]

----------------------------------------------------------------------------
(* scan_markets: the variance floor, the thresholds and the rule *)

\* mean * 0.01, as the rational n/d.
VolumeFloor(mean) ==
    [k |-> mean.k, form |-> "rat", n |-> mean.s, d |-> mean.c * FloorDen]

\* A slip: mean * 0.01 for the return too, the abs() forgotten.
ReturnFloorNoAbs(mean) == VolumeFloor(mean)

\* abs(mean) * 0.01, as the rational n/d.
ReturnFloor(mean) ==
    [k |-> mean.k, form |-> "rat", n |-> Abs(mean.s), d |-> mean.c * FloorDen]

\* The standard deviation as a real: sqrt(n/d).
StdReal(std) ==
    [k |-> std.k, form |-> "sqrt", n |-> std.q, d |-> std.c * (std.c - 1)]

\* b > a for a = sqrt(a.n/a.d) and b = b.n/b.d; false when either is NaN.
RatGtSqrt(b, a) ==
    /\ a.k # "nan" /\ b.k # "nan"
    /\ \/ b.k = "inf" /\ a.k = "num"
       \/ /\ a.k = "num" /\ b.k = "num"
          /\ b.n > 0
          /\ b.n * b.n * a.d > b.d * b.d * a.n

\* Python's max(a, b): b when b > a, else a (so a NaN a is returned as is).
PyMax(a, b) == IF RatGtSqrt(b, a) THEN b ELSE a

\* A slip: mean - mult * std_eff.
ThresholdMinus(mean, mult, eff) ==
    IF mean.k = "num" /\ eff.k = "num"
    THEN [k |-> "num", mean |-> mean, mult |-> -mult, eff |-> eff]
    ELSE [k |-> "nan", mean |-> mean, mult |-> -mult, eff |-> eff]

\* mean + mult * std_eff: NaN as soon as a term is NaN (an infinite mean
\* comes with a NaN std).
Threshold(mean, mult, eff) ==
    IF mean.k = "num" /\ eff.k = "num"
    THEN [k |-> "num", mean |-> mean, mult |-> mult, eff |-> eff]
    ELSE [k |-> "nan", mean |-> mean, mult |-> mult, eff |-> eff]

\* cur >= thr in floats: false for a NaN on either side, true for an
\* infinite cur against a number.  With A/c = cur - mean, the comparison
\* A/c >= mult * eff is decided on integers.
Geq(cur, thr) ==
    IF cur.k = "nan" \/ thr.k # "num" THEN FALSE
    ELSE IF cur.k = "inf" THEN TRUE
    ELSE LET c == thr.mean.c
             A == c * cur.v - thr.mean.s
             m == thr.mult
             e == thr.eff
         IN  IF e.form = "rat"
             THEN A * e.d >= m * e.n * c
             ELSE IF m >= 0
                  THEN A >= 0 /\ A * A * e.d >= m * m * c * c * e.n
                  ELSE A >= 0 \/ A * A * e.d <= m * m * c * c * e.n

volume_std(mt) == PyMax(StdReal(mt.volume.std), VolumeFloor(mt.volume.mean))
return_std(mt) == PyMax(StdReal(mt.return.std), ReturnFloor(mt.return.mean))

volume_threshold(mt, vm) == Threshold(mt.volume.mean, vm, volume_std(mt))
return_threshold(mt, rm) == Threshold(mt.return.mean, rm, return_std(mt))

\* df.iloc[-1]
Last(d) == d.rows[NRows(d)]
current_volume(d) == Num(Last(d).volume)
current_return(d) == Last(d).daily_return
current_rsi(d)    == Last(d).rsi
current_macd(d)   == Last(d).macd

VolumeMet(d, mt, vm) == Geq(current_volume(d), volume_threshold(mt, vm))
ReturnMet(d, mt, rm) == Geq(current_return(d), return_threshold(mt, rm))

\* A slip: `or` for `and`.
MeetsEither(d, mt, vm, rm) == VolumeMet(d, mt, vm) \/ ReturnMet(d, mt, rm)

\* if current_volume >= volume_threshold and current_return >= return_threshold
MeetsCriteria(d, mt, vm, rm) == VolumeMet(d, mt, vm) /\ ReturnMet(d, mt, rm)

\* round(x * 100, 2) of a return held over RetScale, in hundredths of a
\* percent; round() keeps an infinity and a NaN.
RoundPercent(x) ==
    IF x.k = "num" THEN Num(RoundHalfEven(x.v * 10000, RetScale)) ELSE x

RoundMeanPercent(mean) ==
    IF mean.k = "num"
    THEN Num(RoundHalfEven(mean.s * 10000, mean.c * RetScale))
    ELSE [k |-> mean.k, v |-> 0]

\* The record appended to high_demand_pairs.
MatchRecord(symbol, d, mt) ==
    [Symbol        |-> symbol,
     CurrentVolume |-> current_volume(d),
     NormalVolume  |-> mt.volume.mean,
     CurrentReturn |-> RoundPercent(current_return(d)),
     NormalReturn  |-> RoundMeanPercent(mt.return.mean),
     RSI           |-> current_rsi(d),
     MACD          |-> current_macd(d),
     Timestamp     |-> Last(d).timestamp]

\* A slip: no try/except, the exception leaves get_ohlcv_data.
get_ohlcv_data_uncaught(raises, ohlcv) ==
    IF raises THEN Raised ELSE BuildFrame(ohlcv)

\* get_ohlcv_data: the whole body is inside try/except Exception, so an
\* exception of the exchange (or of the indicator provider) is logged and
\* None is returned.
get_ohlcv_data(raises, ohlcv) == IF raises THEN None ELSE BuildFrame(ohlcv)

\* A slip: the length test one short, len(df) < lookback.
SkipInstrumentOneShort(d, lb) == d = None \/ NRows(d) < lb

\* if df is None or len(df) < (lookback + 1): continue
SkipInstrument(d, lb) == d = None \/ NRows(d) < lb + 1

----------------------------------------------------------------------------
(* The state machine *)

\* The arguments scan_markets is called with: the defaults of the signature
\* (which /scan passes), a negative multiplier, and every
\* lookback from -1 up to the longest one a series of MaxLen candles can fill.
MultPairs ==
    { <<DefaultVolumeMult, DefaultReturnMult>>, <<-1, DefaultReturnMult>> }

Lookbacks == (-1)..(MaxLen - 1)

Positions == 1..Len(symbols)

Init ==
    /\ symbols \in Universes
    /\ base_currencies = <<USDT>>
    /\ volume_mult = None
    /\ return_mult = None
    /\ lookback = None
    /\ pc = "idle"
    /\ i = 0
    /\ df = None
    /\ recent_data = None
    /\ metrics = None
    /\ high_demand_pairs = <<>>
    /\ fetches = [p \in 1..Len(symbols) |-> 0]
    /\ outcome = [p \in 1..Len(symbols) |-> "pending"]

\* The call scan_markets(volume_mult, return_mult, lookback).
ScanMarkets ==
    /\ pc = "idle"
    /\ \E mp \in MultPairs, lb \in Lookbacks :
          /\ volume_mult' = mp[1]
          /\ return_mult' = mp[2]
          /\ lookback' = lb
    /\ high_demand_pairs' = <<>>
    /\ i' = 1
    /\ pc' = "loop"
    /\ UNCHANGED <<symbols, base_currencies, df, recent_data, metrics,
                   fetches, outcome>>

\* The symbol names none of the base currencies: continue.
FilterSkip ==
    /\ pc = "loop"
    /\ i \in Positions
    /\ ~AnyBaseIn(symbols[i], base_currencies)
    /\ outcome' = [outcome EXCEPT ![i] = "filtered"]
    /\ i' = i + 1
    /\ UNCHANGED <<symbols, base_currencies, volume_mult, return_mult,
                   lookback, pc, df, recent_data, metrics, high_demand_pairs,
                   fetches>>

\* df = self.get_ohlcv_data(symbol, limit=lookback+10), then the length
\* test: None or a short table continues with the next symbol.
Fetch ==
    /\ pc = "loop"
    /\ i \in Positions
    /\ AnyBaseIn(symbols[i], base_currencies)
    /\ \E raises \in BOOLEAN :
       \E ohlcv \in (IF raises THEN {<<>>} ELSE SeriesFor(Limit(lookback))) :
          LET r == get_ohlcv_data(raises, ohlcv)
          IN  /\ fetches' = [fetches EXCEPT ![i] = @ + 1]
              /\ IF r = Raised
                 THEN /\ pc' = "error"
                      /\ UNCHANGED <<i, df, outcome>>
                 ELSE IF SkipInstrument(r, lookback)
                 THEN /\ outcome' = [outcome EXCEPT
                                       ![i] = IF r = None THEN "failed"
                                              ELSE "short"]
                      /\ df' = r
                      /\ i' = i + 1
                      /\ pc' = "loop"
                 ELSE /\ df' = r
                      /\ pc' = "fetched"
                      /\ UNCHANGED <<i, outcome>>
    /\ UNCHANGED <<symbols, base_currencies, volume_mult, return_mult,
                   lookback, recent_data, metrics, high_demand_pairs>>

\* df = calculate_daily_returns(df); metrics = calculate_metrics(df, lookback).
\* An empty recent_data raises IndexError out of scan_markets.
Compute ==
    /\ pc = "fetched"
    /\ LET d == calculate_daily_returns(df)
       IN  /\ df' = d
           /\ IF MetricsRaises(d, lookback)
              THEN /\ pc' = "error"
                   /\ UNCHANGED <<recent_data, metrics>>
              ELSE /\ recent_data' = RecentData(d, lookback)
                   /\ metrics' = calculate_metrics(d, lookback)
                   /\ pc' = "computed"
    /\ UNCHANGED <<symbols, base_currencies, volume_mult, return_mult,
                   lookback, i, high_demand_pairs, fetches, outcome>>

\* A slip: high_demand_pairs.insert(0, {...}).
PrependMatch(pairs, m) == <<m>> \o pairs

\* high_demand_pairs.append({...})
AppendMatch(pairs, m) == Append(pairs, m)

\* The floor, the thresholds and the rule; on a match the record is
\* appended.
Decide ==
    /\ pc = "computed"
    /\ IF MeetsCriteria(df, metrics, volume_mult, return_mult)
       THEN /\ high_demand_pairs' =
                 AppendMatch(high_demand_pairs,
                             MatchRecord(symbols[i], df, metrics))
            /\ outcome' = [outcome EXCEPT ![i] = "matched"]
       ELSE /\ outcome' = [outcome EXCEPT ![i] = "unmatched"]
            /\ UNCHANGED high_demand_pairs
    /\ pc' = "decided"
    /\ UNCHANGED <<symbols, base_currencies, volume_mult, return_mult,
                   lookback, i, df, recent_data, metrics, fetches>>

\* The end of the loop body: the for statement takes the next symbol.  df,
\* recent_data and metrics are not read again before the next iteration
\* rebinds them, and the model drops them here.
NextSymbol ==
    /\ pc = "decided"
    /\ df' = None
    /\ recent_data' = None
    /\ metrics' = None
    /\ i' = i + 1
    /\ pc' = "loop"
    /\ UNCHANGED <<symbols, base_currencies, volume_mult, return_mult,
                   lookback, high_demand_pairs, fetches, outcome>>

\* return pd.DataFrame(high_demand_pairs)
Return ==
    /\ pc = "loop"
    /\ i = Len(symbols) + 1
    /\ pc' = "done"
    /\ UNCHANGED <<symbols, base_currencies, volume_mult, return_mult,
                   lookback, i, df, recent_data, metrics, high_demand_pairs,
                   fetches, outcome>>

Next ==
    \/ ScanMarkets
    \/ FilterSkip
    \/ Fetch
    \/ Compute
    \/ Decide
    \/ NextSymbol
    \/ Return

Spec == Init /\ [][Next]_vars

----------------------------------------------------------------------------
(* Properties *)

Evaluating == pc \in {"computed", "decided"}

\* The symbols of the match records, in order.
MatchedSymbols == [j \in 1..Len(high_demand_pairs) |-> high_demand_pairs[j].Symbol]

Emitted(symbol) == \E j \in 1..Len(MatchedSymbols) : MatchedSymbols[j] = symbol

\* The position get_ohlcv_data was last called for (0 before the first call).
LastFetched ==
    IF \A p \in Positions : fetches[p] = 0 THEN 0
    ELSE CHOOSE p \in Positions :
             fetches[p] > 0 /\ \A r \in Positions : fetches[r] > 0 => r <= p

\* The rows of df at the 0-based positions len-lookback-1 .. len-2.
BaselineRows ==
    [j \in 1..lookback |-> df.rows[NRows(df) - lookback + j - 1]]

\* C1: for a positive lookback and a series of at least lookback+1 rows, the
\* baseline of calculate_metrics is taken over exactly the lookback rows at
\* the 0-based positions len-lookback-1 .. len-2: recent_data holds those
\* rows and no other, the row at len-1 (the current sample scan_markets
\* reads) is not among them, and the volume and return mean and std are
\* those of these rows.
C1_BaselineExcludesCurrent ==
    (Evaluating /\ lookback >= 1 /\ NRows(df) >= lookback + 1) =>
        /\ Column(recent_data, "index") =
              [j \in 1..lookback |-> NRows(df) - lookback - 2 + j]
        /\ \A j \in 1..NRows(recent_data) :
              recent_data.rows[j].index # NRows(df) - 1
        /\ recent_data.rows = BaselineRows
        /\ metrics.volume.mean =
              [k |-> "num",
               s |-> SumSeq([j \in 1..lookback |-> BaselineRows[j].volume]),
               c |-> lookback]
        /\ metrics.volume.std = Std(VolumeColumn(Frame(BaselineRows)))
        /\ metrics.return.mean = Mean(Column(Frame(BaselineRows), "daily_return"))
        /\ metrics.return.std = Std(Column(Frame(BaselineRows), "daily_return"))

\* C1 witness: a baseline was computed for a series with rows before the
\* window, whose current volume differs from every volume of the window and
\* from the mean of the window.
C1_Witness ==
    /\ pc = "computed"
    /\ lookback >= 1
    /\ NRows(df) > lookback + 1
    /\ \A j \in 1..NRows(recent_data) :
          recent_data.rows[j].volume # Last(df).volume
    /\ metrics.volume.mean.s # metrics.volume.mean.c * Last(df).volume

\* C2: a fetch failure of one instrument (get_ohlcv_data returning None)
\* never aborts the scan: the scan never ends in an error because of it, the
\* failed instrument has no match record, and when the scan returns every
\* instrument that passes the quote filter has been fetched once and dealt
\* with.
C2_FetchFailureIsolated ==
    /\ pc = "error" => (df.k = "frame" /\ outcome[i] = "pending")
    /\ \A p \in Positions :
          outcome[p] = "failed" =>
              /\ ~Emitted(symbols[p])
              /\ pc # "error" => i > p
    /\ pc = "done" =>
          \A p \in Positions :
              AnyBaseIn(symbols[p], base_currencies) =>
                  /\ fetches[p] = 1
                  /\ outcome[p] \in {"failed", "short", "matched", "unmatched"}

\* C2 witness: the scan returned, the fetch of the first instrument failed
\* and a later instrument was still evaluated and matched.
C2_Witness ==
    /\ pc = "done"
    /\ outcome[1] = "failed"
    /\ \E p \in Positions : p > 1 /\ outcome[p] = "matched"

\* C3: a series of fewer than lookback+1 candles is skipped by scan_markets:
\* only series of at least lookback+1 rows reach calculate_metrics, so for a
\* positive lookback no baseline is computed over fewer than lookback rows;
\* the skipped instrument has no match record; and no error comes of it.
C3_ShortSeriesSkipped ==
    /\ pc \in {"fetched", "computed", "decided"} => NRows(df) >= lookback + 1
    /\ (Evaluating /\ lookback >= 1) => NRows(recent_data) = lookback
    /\ \A p \in Positions :
          outcome[p] = "short" => ~Emitted(symbols[p])
    /\ (pc \in {"loop", "done"} /\ df.k = "frame") =>
          /\ NRows(df) < lookback + 1
          /\ LastFetched > 0
          /\ LastFetched < i
          /\ outcome[LastFetched] = "short"
    /\ (pc = "error" /\ lookback >= 1) => FALSE

\* C3 witness: a series of exactly lookback candles was fetched for a positive
\* lookback and the loop went on to the next symbol without evaluating it.
C3_Witness ==
    /\ pc = "loop"
    /\ lookback >= 1
    /\ df.k = "frame"
    /\ NRows(df) = lookback
    /\ LastFetched = i - 1
    /\ outcome[i - 1] = "short"
    /\ metrics = None

\* cur >= mean + mult * max(std, floor/100) on floats, decided one term at a
\* time: with A/c = cur - mean, the comparison holds for mult >= 0 when
\* A/c >= mult * std and A/c >= mult * floor/100, and for mult < 0 when
\* either holds.  A NaN on either side makes it false; an infinite cur
\* exceeds every number.
RuleHolds(cur, mean, std, mult, floor) ==
    /\ cur.k # "nan"
    /\ mean.k = "num"
    /\ std.k = "num"
    /\ \/ cur.k = "inf"
       \/ LET c == mean.c
              A == c * cur.v - mean.s
              GeStd == IF mult >= 0
                       THEN A >= 0 /\ A * A * (c - 1) >= mult * mult * c * std.q
                       ELSE A >= 0 \/ A * A * (c - 1) <= mult * mult * c * std.q
              GeFloor == 100 * A >= mult * floor
          IN  IF mult >= 0 THEN GeStd /\ GeFloor ELSE GeStd \/ GeFloor

\* C4: an instrument that reaches the anomaly test has a match record if
\* and only if its current volume >= mean + volume_mult * max(std, mean*0.01)
\* and its current return >= mean + return_mult * max(std, |mean|*0.01);
\* failing one of the two alone gives no record, and equality counts.
C4_MatchIffBothThresholds ==
    pc = "decided" =>
        /\ Emitted(symbols[i]) <=>
              /\ RuleHolds(Num(Last(df).volume), metrics.volume.mean,
                           metrics.volume.std, volume_mult,
                           metrics.volume.mean.s)
              /\ RuleHolds(Last(df).daily_return, metrics.return.mean,
                           metrics.return.std, return_mult,
                           Abs(metrics.return.mean.s))
        /\ Emitted(symbols[i]) =>
              high_demand_pairs[Len(high_demand_pairs)].Symbol = symbols[i]

\* C4 witness: a record was appended for a current volume exactly equal to
\* its threshold (flat window of volume v, current volume v + 2 * v/100).
C4_Witness ==
    /\ pc = "decided"
    /\ Emitted(symbols[i])
    /\ volume_mult = 2
    /\ metrics.volume.std.k = "num"
    /\ metrics.volume.std.q = 0
    /\ metrics.volume.mean.s > 0
    /\ 100 * (metrics.volume.mean.c * Last(df).volume - metrics.volume.mean.s)
          = 2 * metrics.volume.mean.s

\* C5: a scan called with a lookback of zero or less, or with a negative
\* multiplier, fails with an error and returns no result: it never returns
\* normally.
C5_InvalidConfigurationFails ==
    pc = "done" => (lookback >= 1 /\ volume_mult >= 0 /\ return_mult >= 0)

\* C6: a series with a zero or negative open is rejected as a whole: its
\* instrument has no match record.
C6_NonPositiveOpenRejected ==
    (pc = "decided" /\ \E p \in 1..NRows(df) : df.rows[p].open <= 0) =>
        ~Emitted(symbols[i])

\* C7: every match record carries a defined oscillator and trend value and
\* comes from a window that holds no undefined indicator value.
C7_MatchHasDefinedIndicators ==
    (pc = "decided" /\ Emitted(symbols[i])) =>
        /\ high_demand_pairs[Len(high_demand_pairs)].RSI.k = "num"
        /\ high_demand_pairs[Len(high_demand_pairs)].MACD.k = "num"
        /\ \A j \in 1..NRows(recent_data) :
              /\ recent_data.rows[j].rsi.k = "num"
              /\ recent_data.rows[j].macd.k = "num"

\* C8: with the fetched data fixed, raising a multiplier (both >= 0) never
\* adds a match: an instrument that meets the rule under (v2, r2) meets it
\* under every (v1, r1) with v1 <= v2 and r1 <= r2; so the instrument the
\* scan matched is matched under all smaller multipliers, and the one it
\* did not match is matched under no larger ones.
C8_MonotoneInMultipliers ==
    Evaluating =>
        LET Met == { vr \in (0..MaxMult) \X (0..MaxMult) :
                       MeetsCriteria(df, metrics, vr[1], vr[2]) }
        IN  /\ \A hi \in Met :
                  \A v1 \in 0..hi[1], r1 \in 0..hi[2] : <<v1, r1>> \in Met
            /\ (pc = "decided" /\ volume_mult >= 0 /\ return_mult >= 0) =>
                  IF Emitted(symbols[i])
                  THEN \A v1 \in 0..volume_mult, r1 \in 0..return_mult :
                           <<v1, r1>> \in Met
                  ELSE \A v2 \in volume_mult..MaxMult,
                          r2 \in return_mult..MaxMult : <<v2, r2>> \notin Met

\* C8 witness: an instrument the scan did not match under the default
\* multipliers meets the rule under the multipliers (0, 0).
C8_Witness ==
    /\ pc = "decided"
    /\ volume_mult = DefaultVolumeMult
    /\ return_mult = DefaultReturnMult
    /\ ~Emitted(symbols[i])
    /\ MeetsCriteria(df, metrics, 0, 0)

\* C9: for a window of equal values (raw std 0) the effective std of
\* scan_markets is strictly positive when the mean is not zero and zero
\* when it is, for the volume and for the return (a negative mean return
\* included); with the multiplier 2 the threshold is then mean + 2*|mean|/100
\* (a flat volume of 50 gives the floor 0.5 and the threshold 51).
C9_FloorOnFlatWindow ==
    Evaluating =>
        /\ (metrics.volume.std.k = "num" /\ metrics.volume.std.q = 0) =>
              LET e == volume_std(metrics)
                  m == metrics.volume.mean
              IN  /\ e.k = "num"
                  /\ m.s # 0 => (e.n > 0 /\ e.d > 0)
                  /\ m.s = 0 => e.n = 0
                  /\ VolumeMet(df, metrics, 2) <=>
                        100 * (m.c * Last(df).volume - m.s) >= 2 * m.s
                  /\ m.s = 50 * m.c =>
                        (VolumeMet(df, metrics, 2) <=> Last(df).volume >= 51)
        /\ (metrics.return.std.k = "num" /\ metrics.return.std.q = 0) =>
              LET e == return_std(metrics)
                  m == metrics.return.mean
                  cur == Last(df).daily_return
              IN  /\ e.k = "num"
                  /\ m.s # 0 => (e.n > 0 /\ e.d > 0)
                  /\ m.s = 0 => e.n = 0
                  /\ ReturnMet(df, metrics, 2) <=>
                        \/ cur.k = "inf"
                        \/ /\ cur.k = "num"
                           /\ 100 * (m.c * cur.v - m.s) >= 2 * Abs(m.s)

\* C9 witness: a flat window with a negative mean return (floor positive)
\* and a mean volume of zero (floor zero).
C9_Witness ==
    /\ pc = "computed"
    /\ metrics.return.std.k = "num"
    /\ metrics.return.std.q = 0
    /\ metrics.return.mean.s < 0
    /\ metrics.volume.std.k = "num"
    /\ metrics.volume.std.q = 0
    /\ metrics.volume.mean.s = 0
    /\ return_std(metrics).n > 0
    /\ volume_std(metrics).n = 0

\* The position of a symbol in exchange.symbols.
PositionOf(symbol) == CHOOSE p \in Positions : symbols[p] = symbol

\* C10: the match records are a subsequence of the universe in its order:
\* get_ohlcv_data is called at most once for a symbol (never for one outside
\* the quote filter, never again after a failure), each symbol has at most
\* one record, the records are in the order of their symbols in
\* exchange.symbols, and every matched symbol names a base currency.
C10_MatchesFollowUniverseOrder ==
    /\ \A p \in Positions :
          /\ fetches[p] <= 1
          /\ ~AnyBaseIn(symbols[p], base_currencies) => fetches[p] = 0
    /\ \A j \in 1..Len(MatchedSymbols) :
          /\ AnyBaseIn(MatchedSymbols[j], base_currencies)
          /\ \E p \in Positions :
                /\ symbols[p] = MatchedSymbols[j]
                /\ outcome[p] = "matched"
                /\ p <= i
    /\ \A j, l \in 1..Len(MatchedSymbols) :
          j < l => PositionOf(MatchedSymbols[j]) < PositionOf(MatchedSymbols[l])
    /\ Len(MatchedSymbols) =
          Cardinality({p \in Positions : outcome[p] = "matched"})

\* C10 witness: the scan returned two match records.
C10_Witness ==
    /\ pc = "done"
    /\ Len(high_demand_pairs) = 2
    /\ \E p \in Positions : outcome[p] = "filtered"

=============================================================================
